---------------------------- MODULE Spec2Model ----------------------------
(***************************************************************************)
(* Model of the sprite pipeline of story_pose_generator.py                 *)
(* (StoryPoseGenerator): white-background removal, edge decontamination,   *)
(* tight crop, sprite-sheet splitting and the batch run.                   *)
(*                                                                         *)
(* Images are small grids.  A buffer is a record [w, h, px] with px a      *)
(* function from positions <<x, y>> to RGBA pixels <<r, g, b, a>>.         *)
(* float32 alpha values are fixed-point numbers with AlphaScale units per  *)
(* 1.0, float colour values have ChanScale units per 1.0; every arithmetic *)
(* step rounds as noted at its definition.  The OpenCV and NumPy calls are *)
(* modelled by what the libraries compute for these argument types.        *)
(***************************************************************************)
EXTENDS Integers, Sequences, FiniteSets, TLC

(***************************************************************************)
(* Bounds of the model.                                                    *)
(***************************************************************************)
MaxW == 6          \* widest input image
MaxH == 3          \* tallest input image
MaxPixels == 12    \* most pixels of an input image
MaxSheetPixels == 10   \* most pixels of a sheet
MaxInk == 3        \* most pixels of an image that differ from its ground
MaxSheetInk == 5   \* most pixels of a sheet that differ from its ground
MaxArea == 3       \* largest min_area tried, besides the default
AlphaSteps == 20   \* the alphas tried are the multiples of 1 / AlphaSteps
MaxTasks == 2      \* most tasks of a configuration
MaxSprites == 2    \* most sprites found in one sheet
MaxParts == 4      \* most parts of a selected_pose_url split at "/"
MaxPages == 2      \* most story pages in the output directory

(***************************************************************************)
(* Fixed-point scales standing for floating point.                         *)
(***************************************************************************)
AlphaScale == 30600    \* units of a float alpha of 1.0 (a multiple of 7650 and 100)
ChanScale == 100       \* units of a float colour value of 1.0

(***************************************************************************)
(* Constants of the program.                                               *)
(***************************************************************************)
transparent_mean == 240        \* np.mean(alpha) < 240
core_white_threshold == 245
corner_check == 240            \* core_white_mask[corner] > 240
fill_value == 128              \* newVal of cv2.floodFill
dilate_iterations == 2
light_gray == 230              \* pixel_gray > 230
medium_gray == 200             \* pixel_gray > 200
visible_alpha == 10            \* alpha > 10
padding == 2
white == 255
default_min_area == 500        \* min_area=500

(***************************************************************************)
(* Small helpers.                                                          *)
(***************************************************************************)
Max(a, b) == IF a >= b THEN a ELSE b
Min(a, b) == IF a <= b THEN a ELSE b
SetMax(S) == CHOOSE m \in S : \A n \in S : n <= m
SetMin(S) == CHOOSE m \in S : \A n \in S : m <= n

RECURSIVE SumOver(_, _)
SumOver(f, S) ==
  IF S = {} THEN 0
  ELSE LET p == CHOOSE q \in S : TRUE IN f[p] + SumOver(f, S \ {p})

\* a / b rounded to nearest, b > 0
RoundDiv(a, b) == (2 * a + b) \div (2 * b)

Pos(w, h) == (0 .. w - 1) \X (0 .. h - 1)
Buffer(w, h, px) == [w |-> w, h |-> h, px |-> px]
R(p) == p[1]
G(p) == p[2]
B(p) == p[3]
A(p) == p[4]

(***************************************************************************)
(* Input pixels.                                                           *)
(***************************************************************************)
White == <<255, 255, 255, 255>>      \* background white, opaque
Ink == <<200, 100, 50, 255>>         \* a dark colour, gray 124
Light == <<240, 240, 240, 255>>      \* gray 240: above light_gray, no candidate
Mid == <<220, 220, 220, 255>>        \* gray 220: between medium_gray and light_gray
Clear == <<0, 0, 0, 0>>              \* fully transparent
Faint == <<200, 100, 50, 250>>       \* the dark colour, alpha 250
Grounds == {White, Ink, Light, Clear, Faint}
Inks == {White, Ink, Light, Mid, Clear}

Sizes == {s \in (1 .. MaxW) \X (1 .. MaxH) : s[1] * s[2] <= MaxPixels}

\* the images of one size: a ground colour and at most MaxInk pixels of one ink
ImagesOf(w, h) ==
  { Buffer(w, h, [p \in Pos(w, h) |-> IF p \in S THEN k ELSE g]) :
      <<g, k, S>> \in { t \in Grounds \X Inks \X SUBSET Pos(w, h) :
                          Cardinality(t[3]) <= MaxInk } }
Images == UNION { ImagesOf(s[1], s[2]) : s \in Sizes }

\* the sheets of one size: transparent or white ground, at most MaxSheetInk
\* dark pixels
SheetsOf(w, h) ==
  { Buffer(w, h, [p \in Pos(w, h) |-> IF p \in S THEN Ink ELSE g]) :
      <<g, S>> \in { t \in {Clear, White} \X SUBSET Pos(w, h) :
                       Cardinality(t[2]) <= MaxSheetInk } }
SheetSizes == {s \in Sizes : s[1] * s[2] <= MaxSheetPixels}
Sheets == UNION { SheetsOf(s[1], s[2]) : s \in SheetSizes }
MinAreas == (1 .. MaxArea) \cup {default_min_area}

(***************************************************************************)
(* The library calls.                                                      *)
(***************************************************************************)
\* cv2.cvtColor(rgb, cv2.COLOR_RGB2GRAY) on uint8: 14-bit fixed-point weights
\* of 0.299, 0.587, 0.114, rounded
cvtColorGray(p) == (R(p) * 4899 + G(p) * 9617 + B(p) * 1868 + 8192) \div 16384

\* cv2.BORDER_REFLECT_101 (the default border of GaussianBlur)
Reflect101(i, n) ==
  IF n = 1 THEN 0
  ELSE IF i < 0 THEN -i
  ELSE IF i >= n THEN 2 * (n - 1) - i
  ELSE i

\* cv2.getGaussianKernel(3, 0.8) = (0.2390, 0.5220, 0.2390), in 1/KernelUnit
KernelUnit == 10000
Kernel08(i) == IF i = 0 THEN 5220 ELSE 2390

\* cv2.GaussianBlur(alpha, (3, 3), 0.8) on float32: row pass, then column
\* pass, each rounded to the nearest unit of alpha
GaussianBlurFloat(a, w, h) ==
  LET row == [p \in Pos(w, h) |->
                RoundDiv(Kernel08(-1) * a[<<Reflect101(p[1] - 1, w), p[2]>>]
                         + Kernel08(0) * a[p]
                         + Kernel08(1) * a[<<Reflect101(p[1] + 1, w), p[2]>>],
                         KernelUnit)]
  IN [p \in Pos(w, h) |->
        RoundDiv(Kernel08(-1) * row[<<p[1], Reflect101(p[2] - 1, h)>>]
                 + Kernel08(0) * row[p]
                 + Kernel08(1) * row[<<p[1], Reflect101(p[2] + 1, h)>>],
                 KernelUnit)]

\* the 8-bit fixed-point kernel of sigma 0.5 that GaussianBlur uses on
\* uint8: (27, 202, 27) / 256
Kernel05(i) == IF i = 0 THEN 202 ELSE 27

\* cv2.GaussianBlur(alpha_uint8, (3, 3), 0.5) on uint8: exact fixed point,
\* rounded once at the end
GaussianBlurU8(a, w, h) ==
  [p \in Pos(w, h) |->
     LET col(x) == Kernel05(-1) * a[<<x, Reflect101(p[2] - 1, h)>>]
                   + Kernel05(0) * a[<<x, p[2]>>]
                   + Kernel05(1) * a[<<x, Reflect101(p[2] + 1, h)>>]
     IN (Kernel05(-1) * col(Reflect101(p[1] - 1, w))
         + Kernel05(0) * col(p[1])
         + Kernel05(1) * col(Reflect101(p[1] + 1, w)) + 32768) \div 65536]

\* cv2.getStructuringElement(cv2.MORPH_ELLIPSE, (5, 5)) as offsets from
\* its anchor: the three middle rows are full, the outer rows hold the centre
Ellipse5 == ((-2 .. 2) \X (-1 .. 1)) \cup {<<0, -2>>, <<0, 2>>}

\* one cv2.dilate of a 0/1 mask (the set of its 1-pixels); the border adds
\* nothing
DilateOnce(S, w, h) ==
  {p \in Pos(w, h) : \E d \in Ellipse5 : <<p[1] + d[1], p[2] + d[2]>> \in S}

RECURSIVE Dilate(_, _, _, _)
Dilate(S, w, h, iterations) ==
  IF iterations = 0 THEN S
  ELSE Dilate(DilateOnce(S, w, h), w, h, iterations - 1)

\* np.ones((2, 2)) with the default anchor (1, 1): offsets -1 and 0
Square2 == (-1 .. 0) \X (-1 .. 0)
Window(p, w, h) ==
  {q \in Pos(w, h) : \E d \in Square2 : q = <<p[1] + d[1], p[2] + d[2]>>}

\* cv2.morphologyEx(a, cv2.MORPH_CLOSE, kernel_small): dilate, then erode,
\* both over the same window; pixels outside the image are ignored
MorphClose(a, w, h) ==
  LET dilated == [p \in Pos(w, h) |-> SetMax({a[q] : q \in Window(p, w, h)})]
  IN [p \in Pos(w, h) |-> SetMin({dilated[q] : q \in Window(p, w, h)})]

\* the diagonal neighbours counted as well
AdjacentWithDiagonals(p, q) ==
  /\ p # q
  /\ p[1] - q[1] \in -1 .. 1
  /\ p[2] - q[2] \in -1 .. 1

\* 4-neighbours: the default connectivity of cv2.floodFill
Adjacent4(p, q) ==
  \/ p[1] = q[1] /\ (p[2] = q[2] + 1 \/ q[2] = p[2] + 1)
  \/ p[2] = q[2] /\ (p[1] = q[1] + 1 \/ q[1] = p[1] + 1)
\* 8-neighbours
Adjacent8(p, q) ==
  /\ p # q
  /\ p[1] - q[1] \in -1 .. 1
  /\ p[2] - q[2] \in -1 .. 1

\* the pixels of `allowed` reachable from S by 4-neighbour steps
RECURSIVE Grow4(_, _)
Grow4(S, allowed) ==
  LET next == S \cup {q \in allowed : \E p \in S : Adjacent4(p, q)}
  IN IF next = S THEN S ELSE Grow4(next, allowed)

\* cv2.floodFill(image, mask, seed, newVal) with zero loDiff/upDiff and no
\* flags: fills the 4-connected run of pixels equal to the seed that the mask
\* does not cover, and marks them in the mask
floodFill(image, mask, seed, newVal) ==
  IF seed \in mask THEN [image |-> image, mask |-> mask]
  ELSE LET same == {p \in DOMAIN image : p \notin mask /\ image[p] = image[seed]}
           region == Grow4({seed}, same)
       IN [image |-> [p \in DOMAIN image |->
                        IF p \in region THEN newVal ELSE image[p]],
           mask |-> mask \cup region]

\* the pixels of `allowed` reachable from S by 8-neighbour steps
RECURSIVE Grow8(_, _)
Grow8(S, allowed) ==
  LET next == S \cup {q \in allowed : \E p \in S : Adjacent8(p, q)}
  IN IF next = S THEN S ELSE Grow8(next, allowed)

\* the first pixel of S in scan order: top row first, leftmost in the row
RasterFirst(S) ==
  CHOOSE p \in S : \A q \in S : p[2] < q[2] \/ (p[2] = q[2] /\ p[1] <= q[1])

\* the components with 4-neighbour steps instead of 8
RECURSIVE LabelComponents4(_)
LabelComponents4(fg) ==
  IF fg = {} THEN <<>>
  ELSE LET c == Grow4({RasterFirst(fg)}, fg)
       IN <<c>> \o LabelComponents4(fg \ c)

\* the components of the foreground, connectivity=8, in the order of their
\* labels: the order in which a scan of the image first meets them
RECURSIVE LabelComponents(_)
LabelComponents(fg) ==
  IF fg = {} THEN <<>>
  ELSE LET c == Grow8({RasterFirst(fg)}, fg)
       IN <<c>> \o LabelComponents(fg \ c)

\* a row of stats: CC_STAT_LEFT, TOP, WIDTH, HEIGHT, AREA
StatsOf(c) ==
  LET xs == {p[1] : p \in c}
      ys == {p[2] : p \in c}
  IN [x |-> SetMin(xs), y |-> SetMin(ys),
      w |-> SetMax(xs) - SetMin(xs) + 1,
      h |-> SetMax(ys) - SetMin(ys) + 1,
      area |-> Cardinality(c)]

\* cv2.connectedComponentsWithStats(binary, connectivity=8): the stats of the
\* labels 1 .. num_labels - 1
connectedComponentsWithStats(binary) ==
  LET comps == LabelComponents(binary)
  IN [i \in 1 .. Len(comps) |-> StatsOf(comps[i])]

(***************************************************************************)
(* The stages of remove_white_background, as functions of their inputs.    *)
(***************************************************************************)
\* np.mean(alpha) < 240: the buffer already has a transparent background
AlreadyTransparent(buf) ==
  LET P == Pos(buf.w, buf.h)
  IN SumOver([p \in P |-> A(buf.px[p])], P) < transparent_mean * Cardinality(P)

GrayOf(px) == [p \in DOMAIN px |-> cvtColorGray(px[p])]

\* (gray >= core_white_threshold).astype(np.uint8) * 255
CoreWhiteMask(g) ==
  [p \in DOMAIN g |-> IF g[p] >= core_white_threshold THEN 255 ELSE 0]

Corners(w, h) == <<<<0, 0>>, <<w - 1, 0>>, <<0, h - 1>>, <<w - 1, h - 1>>>>

\* the loop over the corners: each corner that is core white is a seed
RECURSIVE FloodFromCorners(_, _, _, _)
FloodFromCorners(flood, core, corners, i) ==
  IF i > Len(corners) THEN flood
  ELSE FloodFromCorners(
         IF core[corners[i]] > corner_check
         THEN floodFill(flood.image, flood.mask, corners[i], fill_value)
         ELSE flood,
         core, corners, i + 1)

\* a flat threshold: every core-white pixel, connected to a corner or not
DefiniteBackgroundFlat(g, w, h) ==
  {p \in Pos(w, h) : g[p] >= core_white_threshold}

\* the flood fill seeded at every corner, core white or not
DefiniteBackgroundUnchecked(g, w, h) ==
  LET core == CoreWhiteMask(g)
      flood == FloodFromCorners([image |-> core, mask |-> {}],
                                [p \in DOMAIN core |-> 255], Corners(w, h), 1)
  IN {p \in Pos(w, h) : flood.image[p] = fill_value}

\* definite_background: the pixels the flood fill has set to 128
DefiniteBackground(g, w, h) ==
  LET core == CoreWhiteMask(g)
      flood == FloodFromCorners([image |-> core, mask |-> {}], core,
                                Corners(w, h), 1)
  IN {p \in Pos(w, h) : flood.image[p] = fill_value}

ExpandedBackground(definite, w, h) == Dilate(definite, w, h, dilate_iterations)

\* the first ramp used for every pixel lighter than medium_gray
ZoneAlphaOneRamp(L) ==
  IF L > medium_gray
  THEN Max(0, 255 * AlphaScale - ((L - light_gray) * 255 * AlphaScale) \div 25)
         \div 255
  ELSE AlphaScale

\* the two ramps of the expansion zone; the result is alpha_val / 255.0
ZoneAlpha(L) ==
  IF L > light_gray
  THEN Max(0, 255 * AlphaScale
              - ((L - light_gray) * 255 * AlphaScale) \div 25) \div 255
  ELSE IF L > medium_gray
  THEN Min(255 * AlphaScale,
           ((light_gray - L) * 128 * AlphaScale) \div 30
           + 127 * AlphaScale) \div 255
  ELSE AlphaScale

\* the ramps applied to every pixel that is not definite background, in the
\* expansion zone or not
GraduatedAlphaEverywhere(g, definite, expanded) ==
  [p \in DOMAIN g |-> IF p \in definite THEN 0 ELSE ZoneAlpha(g[p])]

\* alpha_channel before the blur
GraduatedAlpha(g, definite, expanded) ==
  [p \in DOMAIN g |->
     IF p \in definite THEN 0
     ELSE IF p \in expanded THEN ZoneAlpha(g[p])
     ELSE AlphaScale]

\* the band with its two ends included
SemiTransparentClosed(alpha) ==
  alpha * 10 >= AlphaScale /\ alpha * 100 <= 95 * AlphaScale

\* line 100: (alpha_channel > 0.1) & (alpha_channel < 0.95)
SemiTransparent(alpha) ==
  alpha * 10 > AlphaScale /\ alpha * 100 < 95 * AlphaScale

\* the divisor without its floor
DenominatorUnguarded(alpha) == alpha

\* line 116: np.maximum(alpha_channel, 0.01)
Denominator(alpha) == Max(alpha, AlphaScale \div 100)

\* the quotient without np.clip
RestoreColourUnclipped(channel, alpha) ==
  RoundDiv(channel * AlphaScale - white * ChanScale * (AlphaScale - alpha),
           Denominator(alpha))

\* the inversion with the white term not weighted by 1 - alpha
RestoreColourUnweighted(channel, alpha) ==
  Max(0, Min(white * ChanScale,
    RoundDiv(channel * AlphaScale - white * ChanScale * alpha,
             Denominator(alpha))))

\* lines 113-117: clip((channel - 255 * (1 - alpha)) / max(alpha, 0.01), 0, 255)
\* channel and result are float colours (ChanScale units), alpha a float alpha
\* (AlphaScale units); the quotient is rounded to the nearest unit
RestoreColour(channel, alpha) ==
  Max(0, Min(white * ChanScale,
    RoundDiv(channel * AlphaScale - white * ChanScale * (AlphaScale - alpha),
             Denominator(alpha))))

\* lines 111-119: one channel of one pixel
DecontaminateChannel(channel, alpha) ==
  IF SemiTransparent(alpha) THEN RestoreColour(channel, alpha) ELSE channel

\* decontaminate_edges(rgb_array, alpha_channel): rgb_array maps positions to
\* <<r, g, b>> float colours
decontaminate_edges(rgb_array, alpha_channel) ==
  IF \E p \in DOMAIN rgb_array : SemiTransparent(alpha_channel[p])
  THEN [p \in DOMAIN rgb_array |->
          [c \in 1 .. 3 |-> DecontaminateChannel(rgb_array[p][c], alpha_channel[p])]]
  ELSE rgb_array

\* (alpha_channel * 255).astype(np.uint8)
AlphaUint8(alpha) == [p \in DOMAIN alpha |-> (alpha[p] * 255) \div AlphaScale]

\* rgb.astype(np.float32) and rgb_decontaminated.astype(np.uint8)
AsFloat(rgb) == [p \in DOMAIN rgb |-> [c \in 1 .. 3 |-> rgb[p][c] * ChanScale]]
AsUint8(rgbf) == [p \in DOMAIN rgbf |-> [c \in 1 .. 3 |-> rgbf[p][c] \div ChanScale]]

(***************************************************************************)
(* The tail of crop_sprite_tight: the bounding box of the visible pixels,  *)
(* padded and clamped, or the whole buffer when nothing is visible.        *)
(***************************************************************************)
Visible(buf) == {p \in Pos(buf.w, buf.h) : A(buf.px[p]) > visible_alpha}

\* the slice without the + 1 of its end indices
SliceOpenEnd(buf, rmin, rmax, cmin, cmax) ==
  Buffer(cmax - cmin, rmax - rmin,
         [p \in Pos(cmax - cmin, rmax - rmin) |->
            buf.px[<<p[1] + cmin, p[2] + rmin>>]])

\* image_array[rmin:rmax+1, cmin:cmax+1]
Slice(buf, rmin, rmax, cmin, cmax) ==
  Buffer(cmax - cmin + 1, rmax - rmin + 1,
         [p \in Pos(cmax - cmin + 1, rmax - rmin + 1) |->
            buf.px[<<p[1] + cmin, p[2] + rmin>>]])

\* the box of the visible pixels without the safety padding
CropBoxUnpadded(buf) ==
  LET vis == Visible(buf)
  IN [rmin |-> SetMin({p[2] : p \in vis}), rmax |-> SetMax({p[2] : p \in vis}),
      cmin |-> SetMin({p[1] : p \in vis}), cmax |-> SetMax({p[1] : p \in vis})]

CropBox(buf) ==
  LET vis == Visible(buf)
      rmin == Max(0, SetMin({p[2] : p \in vis}) - padding)
      rmax == Min(buf.h - 1, SetMax({p[2] : p \in vis}) + padding)
      cmin == Max(0, SetMin({p[1] : p \in vis}) - padding)
      cmax == Min(buf.w - 1, SetMax({p[1] : p \in vis}) + padding)
  IN [rmin |-> rmin, rmax |-> rmax, cmin |-> cmin, cmax |-> cmax]

\* the crop without the test that some row and column is visible: the box of
\* no pixels is empty
CropTightUnguarded(buf) ==
  IF Visible(buf) # {}
  THEN LET b == CropBox(buf) IN Slice(buf, b.rmin, b.rmax, b.cmin, b.cmax)
  ELSE Buffer(0, 0, [p \in Pos(0, 0) |-> Clear])

CropTight(buf) ==
  IF Visible(buf) # {}
  THEN LET b == CropBox(buf) IN Slice(buf, b.rmin, b.rmax, b.cmin, b.cmax)
  ELSE buf

\* the colours written and the alpha left fully opaque
CombinedOpaque(rgbf, a8) ==
  [p \in DOMAIN a8 |->
     <<rgbf[p][1] \div ChanScale, rgbf[p][2] \div ChanScale,
       rgbf[p][3] \div ChanScale, 255>>]

\* what lines 223-224 leave in the four-channel array
Combined(rgbf, a8) ==
  LET u == AsUint8(rgbf)
  IN [p \in DOMAIN a8 |-> <<u[p][1], u[p][2], u[p][3], a8[p]>>]

\* an array computed once, where it is made, as numpy computes it (the
\* comparison makes the model checker tabulate the function)
Array(f) == IF f = <<>> THEN <<>> ELSE f

\* remove_white_background as one function of its argument: the stages of
\* lines 135-226 one after the other
RemoveWhiteBackgroundOf(buf) ==
  IF AlreadyTransparent(buf) THEN buf
  ELSE LET g == Array(GrayOf(buf.px))
           colours == [p \in Pos(buf.w, buf.h) |->
                         [c \in 1 .. 3 |-> buf.px[p][c]]]
           definite == DefiniteBackground(g, buf.w, buf.h)
           expanded == ExpandedBackground(definite, buf.w, buf.h)
           graduated == Array(GraduatedAlpha(g, definite, expanded))
           blurred == Array(GaussianBlurFloat(graduated, buf.w, buf.h))
           rgbf == Array(decontaminate_edges(AsFloat(colours), blurred))
           quantized == Array(AlphaUint8(blurred))
           closed == Array(MorphClose(quantized, buf.w, buf.h))
           a8 == Array(GaussianBlurU8(closed, buf.w, buf.h))
       IN [buf EXCEPT !.px = Combined(rgbf, a8)]

(***************************************************************************)
(* State.                                                                  *)
(*                                                                         *)
(* The image process: one call of crop_sprite_tight (op = "crop") or of    *)
(* find_sprites_in_sheet (op = "find"), with the call of                   *)
(* remove_white_background inside it taken stage by stage.                 *)
(***************************************************************************)
VARIABLES
  op,                   \* the function called: "crop", "find", or "none"
  pc,                   \* the next stage of the call
  arg,                  \* the buffer as it was when it was passed in
  image_array,          \* the array remove_white_background works on, now
  gray,                 \* gray (line 150)
  rgb,                  \* rgb, the uint8 copy of the colours (line 145)
  definite_background,  \* the set of pixels of definite_background
  expanded_background,  \* the set of pixels of expanded_background
  alpha_channel,        \* alpha_channel, float
  rgb_float,            \* rgb_float, which decontaminate_edges writes into
  alpha_uint8,          \* alpha_uint8
  ret,                  \* what the called function has returned
  pass,                 \* 1 in the first call, 2 in the call on its result
  first,                \* the result of the first call, during the second
  min_area,             \* min_area of find_sprites_in_sheet
  cropped_sprites       \* cropped_sprites of process_sprite_sheet

imgVars == <<op, pc, arg, image_array, gray, rgb, definite_background,
             expanded_background, alpha_channel, rgb_float, alpha_uint8,
             ret, pass, first, min_area, cropped_sprites>>

(***************************************************************************)
(* A direct call of decontaminate_edges on a synthetic array.              *)
(***************************************************************************)
VARIABLES
  dpc,           \* "call" before the call, "done" after it, "idle"
  blend,         \* TRUE when the observed colours are blends with white
  true_colour,   \* per pixel, the colour before it was blended
  observed,      \* rgb_array as it was when it was passed in
  alpha_in,      \* alpha_channel
  rgb_array,     \* the array that was passed in, now
  recovered,     \* the array decontaminate_edges has returned
  denominator    \* np.maximum(alpha_channel, 0.01), when it was computed

decVars == <<dpc, blend, true_colour, observed, alpha_in, rgb_array, recovered,
             denominator>>

(***************************************************************************)
(* One run of the batch (run): the tasks of the configuration, the output  *)
(* directory and the records run keeps.                                    *)
(***************************************************************************)
VARIABLES
  rpc,              \* "loop", "dimensions", "summary", "done", "aborted", "idle"
  tasks,            \* the declared size of each task, in configuration order
  next_task,        \* the index of the next task of the loop
  pose_counter,     \* pose_counter
  generated_poses,  \* self.generated_poses: the pose numbers, in order
  files,            \* the output directory: file name -> content
  saves,            \* the calls of sprite.save so far, in order
  outcomes,         \* what has happened to each task invoked so far
  dimensions,       \* the dictionary generate_image_dimensions_json returned
  summary           \* the summary written, or None

runVars == <<rpc, tasks, next_task, pose_counter, generated_poses, files, saves,
             outcomes, dimensions, summary>>

(***************************************************************************)
(* One pixel of the expansion zone in the loop of lines 183-194.           *)
(***************************************************************************)
VARIABLES
  zpc,          \* "pixel" before the pixel is handled, "done" after, "idle"
  pixel_gray,   \* pixel_gray
  zone_alpha    \* alpha_channel[y, x] after the loop body, or None

rampVars == <<zpc, pixel_gray, zone_alpha>>

(***************************************************************************)
(* One request to the compose-story endpoint of main.py, lines 120-186.    *)
(***************************************************************************)
VARIABLES
  cpc,                \* "request" before the handler runs, "responded" after, "idle"
  selected_pose_url,  \* request.selected_pose_url.split('/')
  generated_assets,   \* the files under GENERATED_ASSETS_DIR: <<session, name>>
  story_final,        \* the numbers of the page files in STORY_FINAL_DIR
  story_sprite,       \* the file copied to the sprite directory, or None
  composition_config, \* "untouched", "broken" or "written"
  compositor_runs,    \* how many times compositor.py has been started
  response            \* the response sent, or None

composeVars == <<cpc, selected_pose_url, generated_assets, story_final,
                 story_sprite, composition_config, compositor_runs, response>>

vars == <<imgVars, decVars, runVars, rampVars, composeVars>>

None == <<>>

\* the locals of remove_white_background before it has set them
NoLocals ==
  /\ gray = None
  /\ rgb = None
  /\ definite_background = {}
  /\ expanded_background = {}
  /\ alpha_channel = None
  /\ rgb_float = None
  /\ alpha_uint8 = None

DecIdle ==
  /\ dpc = "idle"
  /\ blend = FALSE
  /\ true_colour = None
  /\ observed = None
  /\ alpha_in = None
  /\ rgb_array = None
  /\ recovered = None
  /\ denominator = None

RampIdle ==
  /\ zpc = "idle"
  /\ pixel_gray = 0
  /\ zone_alpha = None

ComposeIdle ==
  /\ cpc = "idle"
  /\ selected_pose_url = None
  /\ generated_assets = {}
  /\ story_final = {}
  /\ story_sprite = None
  /\ composition_config = "untouched"
  /\ compositor_runs = 0
  /\ response = None

RunIdle ==
  /\ rpc = "idle"
  /\ tasks = None
  /\ next_task = 0
  /\ pose_counter = 0
  /\ generated_poses = None
  /\ files = None
  /\ saves = None
  /\ outcomes = None
  /\ dimensions = None
  /\ summary = None

ImgIdle ==
  /\ op = "none"
  /\ pc = "idle"
  /\ arg = None
  /\ image_array = None
  /\ NoLocals
  /\ ret = None
  /\ pass = 0
  /\ first = None
  /\ min_area = 0
  /\ cropped_sprites = None

\* crop_sprite_tight is called with an image
InitCrop ==
  /\ op = "crop"
  /\ pc = "call"
  /\ arg \in Images
  /\ image_array = arg
  /\ NoLocals
  /\ ret = None
  /\ pass = 1
  /\ first = None
  /\ min_area = 0
  /\ cropped_sprites = None
  /\ DecIdle
  /\ RunIdle
  /\ RampIdle
  /\ ComposeIdle

W == image_array.w
H == image_array.h

(***************************************************************************)
(* remove_white_background, lines 135-226.                                 *)
(***************************************************************************)
\* lines 135-151: return a buffer that is already transparent as it is;
\* otherwise copy the colours and take the gray image
RwbEntry ==
  /\ pc = "call"
  /\ IF AlreadyTransparent(image_array)
     THEN /\ pc' = "returned"
          /\ UNCHANGED <<gray, rgb>>
     ELSE /\ pc' = "flood"
          /\ rgb' = [p \in Pos(W, H) |-> [c \in 1 .. 3 |-> image_array.px[p][c]]]
          /\ gray' = GrayOf(image_array.px)
  /\ UNCHANGED <<op, arg, image_array, definite_background, expanded_background,
                 alpha_channel, rgb_float, alpha_uint8, ret, pass, first, min_area>>
  /\ UNCHANGED <<cropped_sprites, decVars, runVars, rampVars, composeVars>>

\* lines 153-164: flood fill from the corners
RwbFlood ==
  /\ pc = "flood"
  /\ definite_background' = DefiniteBackground(gray, W, H)
  /\ pc' = "dilate"
  /\ UNCHANGED <<op, arg, image_array, gray, rgb, expanded_background,
                 alpha_channel, rgb_float, alpha_uint8, ret, pass, first, min_area>>
  /\ UNCHANGED <<cropped_sprites, decVars, runVars, rampVars, composeVars>>

\* lines 166-169: dilate the background mask
RwbDilate ==
  /\ pc = "dilate"
  /\ expanded_background' = ExpandedBackground(definite_background, W, H)
  /\ pc' = "alpha"
  /\ UNCHANGED <<op, arg, image_array, gray, rgb, definite_background,
                 alpha_channel, rgb_float, alpha_uint8, ret, pass, first, min_area>>
  /\ UNCHANGED <<cropped_sprites, decVars, runVars, rampVars, composeVars>>

\* lines 171-194: the graduated alpha
RwbAlpha ==
  /\ pc = "alpha"
  /\ alpha_channel' = GraduatedAlpha(gray, definite_background, expanded_background)
  /\ pc' = "blur"
  /\ UNCHANGED <<op, arg, image_array, gray, rgb, definite_background,
                 expanded_background, rgb_float, alpha_uint8, ret, pass, first,
                 min_area>>
  /\ UNCHANGED <<cropped_sprites, decVars, runVars, rampVars, composeVars>>

\* lines 196-202: blur the alpha, convert the colours to float
RwbBlur ==
  /\ pc = "blur"
  /\ alpha_channel' = GaussianBlurFloat(alpha_channel, W, H)
  /\ rgb_float' = AsFloat(rgb)
  /\ pc' = "decontaminate"
  /\ UNCHANGED <<op, arg, image_array, gray, rgb, definite_background,
                 expanded_background, alpha_uint8, ret, pass, first, min_area>>
  /\ UNCHANGED <<cropped_sprites, decVars, runVars, rampVars, composeVars>>

\* line 203: decontaminate_edges writes its result into rgb_float and returns
\* that array
RwbDecontaminate ==
  /\ pc = "decontaminate"
  /\ rgb_float' = decontaminate_edges(rgb_float, alpha_channel)
  /\ pc' = "close"
  /\ UNCHANGED <<op, arg, image_array, gray, rgb, definite_background,
                 expanded_background, alpha_channel, alpha_uint8, ret, pass,
                 first, min_area>>
  /\ UNCHANGED <<cropped_sprites, decVars, runVars, rampVars, composeVars>>

\* lines 205-211: quantize the alpha and close its small holes
RwbClose ==
  /\ pc = "close"
  /\ alpha_uint8' = MorphClose(AlphaUint8(alpha_channel), W, H)
  /\ pc' = "smooth"
  /\ UNCHANGED <<op, arg, image_array, gray, rgb, definite_background,
                 expanded_background, alpha_channel, rgb_float, ret, pass,
                 first, min_area>>
  /\ UNCHANGED <<cropped_sprites, decVars, runVars, rampVars, composeVars>>

\* lines 213-214: the final smoothing
RwbSmooth ==
  /\ pc = "smooth"
  /\ alpha_uint8' = GaussianBlurU8(alpha_uint8, W, H)
  /\ pc' = "combine"
  /\ UNCHANGED <<op, arg, image_array, gray, rgb, definite_background,
                 expanded_background, alpha_channel, rgb_float, ret, pass,
                 first, min_area>>
  /\ UNCHANGED <<cropped_sprites, decVars, runVars, rampVars, composeVars>>

\* lines 216-226: the colours and the alpha are written into image_array,
\* which is returned
RwbCombine ==
  /\ pc = "combine"
  /\ image_array' = [image_array EXCEPT !.px = Combined(rgb_float, alpha_uint8)]
  /\ pc' = "returned"
  /\ UNCHANGED <<op, arg, gray, rgb, definite_background, expanded_background,
                 alpha_channel, rgb_float, alpha_uint8, ret, pass, first, min_area>>
  /\ UNCHANGED <<cropped_sprites, decVars, runVars, rampVars, composeVars>>

remove_white_background ==
  \/ RwbEntry
  \/ RwbFlood
  \/ RwbDilate
  \/ RwbAlpha
  \/ RwbBlur
  \/ RwbDecontaminate
  \/ RwbClose
  \/ RwbSmooth
  \/ RwbCombine

(***************************************************************************)
(* crop_sprite_tight, lines 240-262, after remove_white_background has     *)
(* returned.                                                               *)
(***************************************************************************)
crop_sprite_tight ==
  /\ op = "crop"
  /\ pc = "returned"
  /\ ret' = CropTight(image_array)
  /\ pc' = "done"
  /\ UNCHANGED <<op, arg, image_array, gray, rgb, definite_background,
                 expanded_background, alpha_channel, rgb_float, alpha_uint8,
                 pass, first, min_area>>
  /\ UNCHANGED <<cropped_sprites, decVars, runVars, rampVars, composeVars>>

\* the pipeline is run again on the buffer it has returned
Rerun ==
  /\ op = "crop"
  /\ pc = "done"
  /\ pass = 1
  /\ pass' = 2
  /\ first' = ret
  /\ arg' = ret
  /\ image_array' = ret
  /\ ret' = None
  /\ gray' = None
  /\ rgb' = None
  /\ definite_background' = {}
  /\ expanded_background' = {}
  /\ alpha_channel' = None
  /\ rgb_float' = None
  /\ alpha_uint8' = None
  /\ pc' = "call"
  /\ UNCHANGED <<op, min_area>>
  /\ UNCHANGED <<cropped_sprites, decVars, runVars, rampVars, composeVars>>

NextCrop ==
  \/ remove_white_background
  \/ crop_sprite_tight
  \/ Rerun

SpecCrop == InitCrop /\ [][NextCrop]_vars

(***************************************************************************)
(* Properties of crop_sprite_tight and remove_white_background.            *)
(***************************************************************************)
AllPixels(buf, k) == \A p \in Pos(buf.w, buf.h) : buf.px[p] = k
SameSize(a, b) == a.w = b.w /\ a.h = b.h
SameColours(a, b) ==
  /\ SameSize(a, b)
  /\ \A p \in Pos(a.w, a.h) : \A c \in 1 .. 3 : a.px[p][c] = b.px[p][c]
Opaque(buf) == \A p \in Pos(buf.w, buf.h) : A(buf.px[p]) = 255
CropDone == op = "crop" /\ pc = "done"

\* C1 as stated: when no pixel is visible at the time the box is computed,
\* crop_sprite_tight returns the buffer it was given, pixel for pixel.
C1_CropReturnsInput ==
  (CropDone /\ Visible(image_array) = {}) => ret = arg

\* C1, amended: when no pixel is visible at the time the box is computed,
\* crop_sprite_tight returns the whole buffer as remove_white_background left
\* it, uncropped: the width and height of the input, with the colours and the
\* alpha that the background removal wrote.  It is the input itself when the
\* input's mean alpha is below 240; an entirely white opaque input comes back
\* white with alpha 0 at every pixel.
C1_CropTotality ==
  (CropDone /\ Visible(image_array) = {}) =>
     /\ ret = image_array
     /\ SameSize(ret, arg)
     /\ AlreadyTransparent(arg) => ret = arg
     /\ AllPixels(arg, White) => AllPixels(ret, <<255, 255, 255, 0>>)

\* an entirely white opaque image of several pixels has been cropped
C1_Witness ==
  /\ CropDone /\ pass = 1
  /\ Visible(image_array) = {}
  /\ AllPixels(arg, White)
  /\ arg.w * arg.h >= 4

\* C2: running crop_sprite_tight on a buffer it has returned gives that
\* buffer back: same width and height, same value at every pixel.
C2_Stability ==
  (CropDone /\ pass = 2) => ret = first

\* C7: crop_sprite_tight always returns a buffer of positive width and
\* height, whose pixels are pixels of the buffer after background removal.
C7_CropNeverDegenerates ==
  CropDone =>
     /\ ret.w > 0 /\ ret.h > 0
     /\ ret.w <= arg.w /\ ret.h <= arg.h
     /\ DOMAIN ret.px = Pos(ret.w, ret.h)

\* the visible pixels all lie on the border of the image and the crop has
\* cut the image down
C7_Witness ==
  /\ CropDone
  /\ Visible(image_array) # {}
  /\ \A p \in Visible(image_array) :
        p[1] \in {0, arg.w - 1} \/ p[2] \in {0, arg.h - 1}
  /\ ret.w < arg.w

CornerSet(buf) == {Corners(buf.w, buf.h)[i] : i \in 1 .. 4}
NoCandidateCorner(buf) ==
  \A c \in CornerSet(buf) : cvtColorGray(buf.px[c]) < core_white_threshold
RwbReturned == pc = "returned" /\ pass = 1

\* C8 as stated: with no candidate corner, remove_white_background returns
\* a buffer in which every pixel keeps its R, G and B values and is fully
\* opaque.
C8_UnmodifiedAndOpaque ==
  (RwbReturned /\ NoCandidateCorner(arg)) =>
     SameColours(image_array, arg) /\ Opaque(image_array)

\* C8, amended: with no candidate corner, remove_white_background keeps the
\* size and the colours of every pixel; a buffer whose mean alpha is below 240
\* is returned as it is, alpha included; any other buffer has an empty
\* definite-background mask and comes back fully opaque.
C8_NoBackgroundDetected ==
  (RwbReturned /\ NoCandidateCorner(arg)) =>
     /\ SameColours(image_array, arg)
     /\ AlreadyTransparent(arg) => image_array = arg
     /\ ~AlreadyTransparent(arg) =>
          definite_background = {} /\ Opaque(image_array)

\* a buffer with core-white pixels, none of them at a corner, has gone
\* through the whole background removal
C8_Witness ==
  /\ RwbReturned /\ NoCandidateCorner(arg)
  /\ gray # None
  /\ \E p \in Pos(arg.w, arg.h) : gray[p] >= core_white_threshold

\* the colours of a buffer, as line 145 copies them
ColoursOf(buf) ==
  [p \in Pos(buf.w, buf.h) |-> [c \in 1 .. 3 |-> buf.px[p][c]]]
AfterDecontaminate == pc \in {"close", "smooth", "combine"}
RwbRunning == op = "crop" /\ pass = 1 /\ pc \notin {"call", "returned", "done"}

\* C13 as stated: when remove_white_background and crop_sprite_tight have
\* returned, the array that was passed in holds the values it held before.
C13_InputUntouched ==
  (op = "crop" /\ pass = 1 /\ pc \in {"returned", "done"}) => image_array = arg

\* C13, amended: remove_white_background leaves the array it was given as it
\* was only when it returns early (mean alpha below 240) and, otherwise,
\* until its last step; its last step writes the new colours and the new
\* alpha into that array, and crop_sprite_tight returns a view of the same
\* array.  decontaminate_edges writes its result into the float array it
\* was given (rgb_float); the uint8 copy of the colours (rgb) stays as the
\* input was.
C13_WritesInPlace ==
  (op = "crop" /\ pass = 1) =>
     /\ (pc \in {"returned", "done"} /\ AlreadyTransparent(arg))
           => image_array = arg
     /\ RwbRunning => image_array = arg /\ rgb = ColoursOf(arg)
     /\ AfterDecontaminate
           => rgb_float = decontaminate_edges(AsFloat(rgb), alpha_channel)
     /\ (pc \in {"returned", "done"} /\ ~AlreadyTransparent(arg)) =>
           /\ SameSize(image_array, arg)
           /\ rgb = ColoursOf(arg)
           /\ \A p \in Pos(arg.w, arg.h) :
                 image_array.px[p] =
                   <<rgb_float[p][1] \div ChanScale, rgb_float[p][2] \div ChanScale,
                     rgb_float[p][3] \div ChanScale, alpha_uint8[p]>>
     /\ pc = "done" => ret = CropTight(image_array)

\* the background removal has changed both the colours and the alpha of
\* the array it was given, and decontaminate_edges has changed rgb_float
C13_Witness ==
  /\ op = "crop" /\ pass = 1 /\ pc = "done"
  /\ ~SameColours(image_array, arg)
  /\ \E p \in Pos(arg.w, arg.h) : A(image_array.px[p]) # A(arg.px[p])
  /\ rgb_float # AsFloat(rgb)

(***************************************************************************)
(* find_sprites_in_sheet, lines 276-301.  remove_white_background works on *)
(* a copy of the sheet; what follows it is the threshold, the components,  *)
(* the area filter and the sort.                                           *)
(***************************************************************************)
\* area > min_area in place of area >= min_area
KeepsAreaStrict(area, m) == area > m
\* the comparison the wrong way round
KeepsAreaBelow(area, m) == area <= m

\* line 295
KeepsArea(area, m) == area >= m

\* lines 291-296: the boxes of the components that are large enough, in
\* label order
RECURSIVE BoxesFrom(_, _, _)
BoxesFrom(stats, m, i) ==
  IF i > Len(stats) THEN <<>>
  ELSE (IF KeepsArea(stats[i].area, m)
        THEN << <<stats[i].x, stats[i].y, stats[i].w, stats[i].h>> >>
        ELSE <<>>) \o BoxesFrom(stats, m, i + 1)

\* box inserted into a list sorted by x, behind the boxes of the same x
RECURSIVE InsertByX(_, _)
InsertByX(sorted, box) ==
  IF sorted = <<>> THEN <<box>>
  ELSE IF box[1] < Head(sorted)[1] THEN <<box>> \o sorted
  ELSE <<Head(sorted)>> \o InsertByX(Tail(sorted), box)

RECURSIVE SortFrom(_, _, _)
SortFrom(sorted, boxes, i) ==
  IF i > Len(boxes) THEN sorted
  ELSE SortFrom(InsertByX(sorted, boxes[i]), boxes, i + 1)

\* the list left as it is
Unsorted(boxes) == boxes

\* sprites.sort(key=lambda box: box[0]): stable, by x alone
SortByX(boxes) == SortFrom(<<>>, boxes, 1)

\* the threshold the wrong way round (THRESH_BINARY_INV)
BinaryMaskInverted(processed) ==
  {p \in Pos(processed.w, processed.h) : A(processed.px[p]) <= visible_alpha}

\* line 286: cv2.threshold(alpha, 10, 255, cv2.THRESH_BINARY), as the set of
\* pixels it sets to 255
BinaryMask(processed) ==
  {p \in Pos(processed.w, processed.h) : A(processed.px[p]) > visible_alpha}

\* lines 278-301 on the processed array
FindSprites(processed, m) ==
  LET binary == BinaryMask(processed)
      stats == connectedComponentsWithStats(binary)
  IN SortByX(BoxesFrom(stats, m, 1))

\* find_sprites_in_sheet is called with a sheet and a min_area
InitSheet ==
  /\ op = "find"
  /\ pc = "call"
  /\ arg \in Sheets
  /\ image_array = arg
  /\ NoLocals
  /\ ret = None
  /\ pass = 1
  /\ first = None
  /\ min_area \in MinAreas
  /\ cropped_sprites = None
  /\ DecIdle
  /\ RunIdle
  /\ RampIdle
  /\ ComposeIdle

find_sprites_in_sheet ==
  /\ op = "find"
  /\ pc = "returned"
  /\ ret' = FindSprites(image_array, min_area)
  /\ pc' = "done"
  /\ UNCHANGED <<op, arg, image_array, gray, rgb, definite_background,
                 expanded_background, alpha_channel, rgb_float, alpha_uint8,
                 pass, first, min_area>>
  /\ UNCHANGED <<cropped_sprites, decVars, runVars, rampVars, composeVars>>

\* line 322: image_array[y:y+h, x:x+w].copy(), of the sheet as it was loaded
SpriteRegion(sheet, bbox) ==
  Slice(sheet, bbox[2], bbox[2] + bbox[4] - 1, bbox[1], bbox[1] + bbox[3] - 1)

\* lines 318-328: every box is cut out of the sheet and cropped tight, the
\* background removal of crop_sprite_tight included
CroppedSprites(sheet, sprites) ==
  [i \in 1 .. Len(sprites) |->
     CropTight(RemoveWhiteBackgroundOf(SpriteRegion(sheet, sprites[i])))]

\* process_sprite_sheet, lines 313-330, after find_sprites_in_sheet has
\* returned; min_area is the threshold in force in that call
process_sprite_sheet ==
  /\ op = "find"
  /\ pc = "done"
  /\ pass = 1
  /\ cropped_sprites' = CroppedSprites(arg, ret)
  /\ pc' = "processed"
  /\ UNCHANGED <<op, arg, image_array, gray, rgb, definite_background,
                 expanded_background, alpha_channel, rgb_float, alpha_uint8,
                 ret, pass, first, min_area>>
  /\ UNCHANGED <<decVars, runVars, rampVars, composeVars>>

\* the same sheet is split again with a larger min_area; the background
\* removal works on a new copy of the sheet
FindAgain ==
  /\ op = "find"
  /\ pc = "done"
  /\ pass = 1
  /\ \E m \in MinAreas : m > min_area /\ min_area' = m
  /\ pass' = 2
  /\ first' = ret
  /\ image_array' = arg
  /\ ret' = None
  /\ gray' = None
  /\ rgb' = None
  /\ definite_background' = {}
  /\ expanded_background' = {}
  /\ alpha_channel' = None
  /\ rgb_float' = None
  /\ alpha_uint8' = None
  /\ pc' = "call"
  /\ UNCHANGED <<op, arg>>
  /\ UNCHANGED <<cropped_sprites, decVars, runVars, rampVars, composeVars>>

NextSheet ==
  \/ remove_white_background
  \/ find_sprites_in_sheet
  \/ process_sprite_sheet
  \/ FindAgain

SpecSheet == InitSheet /\ [][NextSheet]_vars

(***************************************************************************)
(* Properties of find_sprites_in_sheet.                                    *)
(***************************************************************************)
FindDone == op = "find" /\ pc = "done"
SeqSet(q) == {q[i] : i \in 1 .. Len(q)}

\* C3: the boxes that find_sprites_in_sheet returns have non-decreasing x.
C3_Ordering ==
  FindDone => \A i \in 1 .. Len(ret) - 1 : ret[i][1] <= ret[i + 1][1]

\* two boxes are returned, and the one met first by the scan (the higher one)
\* is the right one
C3_Witness ==
  /\ FindDone
  /\ Len(ret) = 2
  /\ ret[1][1] < ret[2][1]
  /\ ret[1][2] > ret[2][2]

\* C4: with the sheet fixed, a larger min_area returns no more boxes, and only
\* boxes that the smaller min_area returned too.
C4_Monotonicity ==
  (FindDone /\ pass = 2) =>
     /\ Len(ret) <= Len(first)
     /\ SeqSet(ret) \subseteq SeqSet(first)

\* the larger min_area has dropped a box and kept one
C4_Witness ==
  /\ FindDone /\ pass = 2
  /\ Len(ret) >= 1
  /\ Len(ret) < Len(first)

\* a set of foreground pixels with no foreground 8-neighbour outside it
Closed8(C, fg) == \A p \in C : \A q \in fg \ C : ~Adjacent8(p, q)
\* the 8-connected components: the smallest non-empty closed sets
Components8(fg) ==
  {C \in SUBSET fg :
     /\ C # {}
     /\ Closed8(C, fg)
     /\ \A D \in SUBSET C : (D # {} /\ D # C) => ~Closed8(D, fg)}
BoxOf(C) ==
  <<SetMin({p[1] : p \in C}), SetMin({p[2] : p \in C}),
    SetMax({p[1] : p \in C}) - SetMin({p[1] : p \in C}) + 1,
    SetMax({p[2] : p \in C}) - SetMin({p[2] : p \in C}) + 1>>
LargeComponents == {C \in Components8(Visible(image_array)) : Cardinality(C) >= min_area}

\* C5: find_sprites_in_sheet returns one box for each 8-connected component
\* of the foreground mask (alpha > 10 after background removal) whose area is
\* at least min_area, the bounding box of that component, and nothing else.
C5_RegionSet ==
  FindDone =>
     /\ SeqSet(ret) = {BoxOf(C) : C \in LargeComponents}
     /\ Len(ret) = Cardinality(LargeComponents)

\* three components, two of them of at least min_area and a smaller speckle:
\* two boxes are returned
C5_Witness ==
  /\ FindDone
  /\ Cardinality(Components8(Visible(image_array))) = 3
  /\ Cardinality(LargeComponents) = 2
  /\ Len(ret) = 2
  /\ min_area > 1

SheetProcessed == op = "find" /\ pc = "processed"
NoForeground == BinaryMask(image_array) = {}

\* C12: for a sheet in which no pixel is foreground after the background
\* removal (an entirely white sheet is one), find_sprites_in_sheet returns
\* the empty list and process_sprite_sheet returns no sprite.
C12_EmptySheet ==
  /\ (FindDone /\ NoForeground) => ret = <<>>
  /\ (SheetProcessed /\ NoForeground) => ret = <<>> /\ cropped_sprites = <<>>
  /\ (op = "find" /\ pc = "returned" /\ pass = 1 /\ AllPixels(arg, White))
        => NoForeground

\* an entirely white sheet of several pixels has been split and processed
\* with a threshold that a component of the whole sheet would pass
C12_Witness ==
  /\ SheetProcessed
  /\ AllPixels(arg, White)
  /\ arg.w * arg.h >= 4
  /\ min_area <= arg.w * arg.h
  /\ cropped_sprites = <<>>

(***************************************************************************)
(* decontaminate_edges called on a synthetic array of two pixels.  The     *)
(* first pixel has a true colour and an alpha; its observed colour is the  *)
(* true colour blended with white at that alpha (blend), or the true       *)
(* colour itself.  The second pixel is a neighbour of some alpha.          *)
(***************************************************************************)
TrueColours == {<<c, 255 - c, (c + 128) % 256>> : c \in 0 .. 255}
AlphaValues ==
  {(k * AlphaScale) \div AlphaSteps : k \in 0 .. AlphaSteps}
  \cup {AlphaScale \div 10, (95 * AlphaScale) \div 100}
NeighbourAlphas == {0, AlphaScale \div 2, AlphaScale}

\* observed = C * a + 255 * (1 - a), a float colour
Blend(c, alpha) ==
  RoundDiv(c * ChanScale * alpha + white * ChanScale * (AlphaScale - alpha),
           AlphaScale)

InitDecon ==
  /\ dpc = "call"
  /\ blend \in BOOLEAN
  /\ \E c \in TrueColours : true_colour = <<c, <<90, 160, 30>> >>
  /\ \E a \in AlphaValues, n \in NeighbourAlphas : alpha_in = <<a, n>>
  /\ observed =
       [p \in 1 .. 2 |->
          [c \in 1 .. 3 |->
             IF blend THEN Blend(true_colour[p][c], alpha_in[p])
             ELSE true_colour[p][c] * ChanScale]]
  /\ rgb_array = observed
  /\ recovered = None
  /\ denominator = None
  /\ ImgIdle
  /\ RunIdle
  /\ RampIdle
  /\ ComposeIdle

\* lines 99-122: the result is written into rgb_array, which is returned;
\* when some pixel is in the band, the quotient of lines 113-117 is computed
\* for every pixel of the array (np.where selects afterwards), so the
\* divisor is computed for every pixel
DecontaminateEdges ==
  /\ dpc = "call"
  /\ rgb_array' = decontaminate_edges(rgb_array, alpha_in)
  /\ recovered' = rgb_array'
  /\ denominator' =
       IF \E p \in DOMAIN alpha_in : SemiTransparent(alpha_in[p])
       THEN [p \in DOMAIN alpha_in |-> Denominator(alpha_in[p])]
       ELSE None
  /\ dpc' = "done"
  /\ UNCHANGED <<blend, true_colour, observed, alpha_in>>
  /\ UNCHANGED <<imgVars, runVars, rampVars, composeVars>>

NextDecon == DecontaminateEdges

SpecDecon == InitDecon /\ [][NextDecon]_vars

(***************************************************************************)
(* Properties of decontaminate_edges.                                      *)
(***************************************************************************)
Abs(x) == IF x >= 0 THEN x ELSE -x
DeconDone == dpc = "done"
\* 0.15 < alpha < 0.9
InCorrectnessRange(alpha) ==
  alpha * 100 > 15 * AlphaScale /\ alpha * 10 < 9 * AlphaScale

\* C9: a colour blended with white at an alpha strictly between 0.15 and 0.9
\* is recovered by decontaminate_edges within 2 on every channel.
C9_DecontaminationCorrectness ==
  (DeconDone /\ blend) =>
     \A p \in 1 .. 2 :
        InCorrectnessRange(alpha_in[p]) =>
           \A c \in 1 .. 3 :
              Abs(recovered[p][c] - true_colour[p][c] * ChanScale) <= 2 * ChanScale

\* a dark channel has been blended to a clearly lighter one and recovered
C9_Witness ==
  /\ DeconDone /\ blend
  /\ InCorrectnessRange(alpha_in[1])
  /\ true_colour[1][1] <= 10
  /\ observed[1][1] >= 100 * ChanScale
  /\ recovered[1][1] <= 12 * ChanScale

\* C10: a pixel whose alpha is not strictly between 0.1 and 0.95 keeps its
\* colour on all three channels.
C10_PassThrough ==
  DeconDone =>
     \A p \in 1 .. 2 :
        ~(alpha_in[p] * 10 > AlphaScale /\ alpha_in[p] * 100 < 95 * AlphaScale)
           => recovered[p] = observed[p]

\* a pixel of alpha exactly 0.1 or exactly 0.95 has kept its colour while
\* its neighbour, inside the band, was changed
C10_Witness ==
  /\ DeconDone
  /\ alpha_in[1] \in {AlphaScale \div 10, (95 * AlphaScale) \div 100}
  /\ recovered[1] = observed[1]
  /\ recovered[2] # observed[2]

\* C11: for every alpha in [0, 1] and every observed channel in [0, 255],
\* every divisor decontaminate_edges computes is positive (it is at least the
\* floor 0.01) and every channel it returns lies in [0, 255].
C11_DecontaminationGuarded ==
  DeconDone =>
     /\ \A p \in DOMAIN denominator :
           denominator[p] > 0 /\ denominator[p] >= AlphaScale \div 100
     /\ \A p \in 1 .. 2 : \A c \in 1 .. 3 :
           recovered[p][c] >= 0 /\ recovered[p][c] <= 255 * ChanScale

\* a pixel of alpha 0 has been divided by the floor, and a channel whose
\* quotient was negative has been clipped to 0
C11_Witness ==
  /\ DeconDone
  /\ alpha_in[1] = 0
  /\ denominator # None
  /\ denominator[1] = AlphaScale \div 100
  /\ \E c \in 1 .. 3 : recovered[2][c] = 0 /\ observed[2][c] > 0

(***************************************************************************)
(* run and generate_and_process_pose.  A task is its declared size ("none" *)
(* when params has no size).  What the outside world does to one call of   *)
(* generate_and_process_pose is an attempt: where it fails, if it does,    *)
(* how many sprites the processing yields and how many of them are saved.  *)
(***************************************************************************)
TaskSizes == {"1536x1024", "1024x1024", "1024x1536", "none"}
\* a missing size read as the sheet size
DeclaredSizeSheetDefault(t) == IF t = "none" THEN "1536x1024" ELSE t

\* task_config['params'].get('size', '1024x1024')
DeclaredSize(t) == IF t = "none" THEN "1024x1024" ELSE t
\* line 384
IsSheet(t) == DeclaredSize(t) = "1536x1024"

SpriteDims == {<<1, 1>>, <<3, 2>>}
Corrupt == <<0, 0>>       \* the content of a file whose save failed half way
Json == <<0, 1>>          \* the content of a JSON file: no image
\* file names are pairs of a kind and a number
DimensionsFile == <<"image_dimensions.json", 0>>
SummaryFile == <<"generation_summary.json", 0>>

\* the failures before any sprite is saved: opening the photo (line 370),
\* the generation (371), saving the temporary image (379), processing it
\* (387, 398)
EarlyKinds == {"open", "generate", "save_image", "process"}

SpriteCounts(t) == IF IsSheet(t) THEN 0 .. MaxSprites ELSE {1}

Attempts(t) ==
  [kind : EarlyKinds, n : {0}, saved : {0}, partial : {FALSE},
   dims : {<<1, 1>>}, raises : {FALSE}]
  \cup
  { a \in [kind : {"ok", "save_sprite", "unlink"}, n : SpriteCounts(t),
           saved : 0 .. MaxSprites, partial : BOOLEAN, dims : SpriteDims,
           raises : BOOLEAN] :
      /\ a.kind = "ok" => a.saved = a.n /\ ~a.partial /\ ~a.raises
      /\ a.kind = "save_sprite" => a.saved < a.n /\ ~a.raises
      /\ a.kind = "unlink" => a.saved = a.n /\ ~a.partial }

\* no except clause: every failure leaves generate_and_process_pose
PropagatesUncaught(a) == a.kind # "ok"

\* lines 413-417: the handler catches the failure; the exception that leaves
\* generate_and_process_pose is the one of the handler's own unlink, when the
\* temporary file that line 406 could not remove still cannot be removed
Propagates(a) == a.kind = "unlink" /\ a.raises

\* lines 384-402: the branch generate_and_process_pose takes, "none" when it
\* fails before the test of the size
PathTaken(t, a) ==
  IF a.kind \in {"open", "generate", "save_image"} THEN "none"
  ELSE IF IsSheet(t) THEN "sheet" ELSE "single"

\* the list generate_and_process_pose returns (lines 411 and 417)
Returned(a, pose_number) ==
  IF a.kind = "ok" THEN [i \in 1 .. a.n |-> pose_number + i - 1] ELSE <<>>

PoseFile(k) == <<"pose", k>>
TempFile(i) == <<"temp", i>>

\* the output directory after the call: the sprites saved (lines 389-392,
\* 400-402), a half-written sprite, and the temporary file when nothing
\* could remove it
FilesAfter(f, a, pose_number, i) ==
  LET savedNames == {PoseFile(pose_number + j) : j \in 0 .. a.saved - 1}
      half == IF a.kind = "save_sprite" /\ a.partial
              THEN {PoseFile(pose_number + a.saved)} ELSE {}
      temp == IF Propagates(a) THEN {TempFile(i)} ELSE {}
  IN [name \in DOMAIN f \cup savedNames \cup half \cup temp |->
        IF name \in savedNames THEN a.dims
        ELSE IF name \in half THEN Corrupt
        ELSE IF name \in temp THEN <<1024, 1024>>
        ELSE f[name]]

\* lines 389-391 and 400-401: the calls of sprite.save of one task, in the
\* order of the list of sprites; index is the place of the sprite in that list
\* (0 for the leftmost region), and the last call is the one that raised when
\* it left a file behind
SavesOf(a, pose_number, i) ==
  LET tried == a.saved + (IF a.kind = "save_sprite" /\ a.partial THEN 1 ELSE 0)
  IN [j \in 1 .. tried |->
        [name |-> PoseFile(pose_number + j - 1), task |-> i, index |-> j - 1,
         complete |-> j <= a.saved]]

\* the counter moved on by one for every task
NextCounterByOne(counter, sprites) == counter + 1

\* lines 490-493: pose_counter += len(sprites), which leaves it alone when
\* the list is empty
NextCounter(counter, sprites) == counter + Len(sprites)

InitRun ==
  /\ rpc = "loop"
  /\ tasks \in UNION {[1 .. n -> TaskSizes] : n \in 1 .. MaxTasks}
  /\ next_task = 1
  /\ pose_counter = 1
  /\ generated_poses = <<>>
  /\ files = <<>>
  /\ saves = <<>>
  /\ outcomes = <<>>
  /\ dimensions = None
  /\ summary = None
  /\ ImgIdle
  /\ DecIdle
  /\ RampIdle
  /\ ComposeIdle

\* lines 481-502: one round of the loop of run, with the call of
\* generate_and_process_pose (lines 364-417) in it
RunTask ==
  /\ rpc = "loop"
  /\ next_task <= Len(tasks)
  /\ \E a \in Attempts(tasks[next_task]) :
       LET sprites == Returned(a, pose_counter)
       IN /\ files' = FilesAfter(files, a, pose_counter, next_task)
          /\ saves' = saves \o SavesOf(a, pose_counter, next_task)
          /\ outcomes' = Append(outcomes,
                                [task |-> next_task, pose_number |-> pose_counter,
                                 attempt |-> a,
                                 path |-> PathTaken(tasks[next_task], a)])
          /\ IF Propagates(a)
             THEN /\ rpc' = "aborted"
                  /\ UNCHANGED <<next_task, pose_counter, generated_poses>>
             ELSE /\ generated_poses' = generated_poses \o sprites
                  /\ pose_counter' = NextCounter(pose_counter, sprites)
                  /\ next_task' = next_task + 1
                  /\ rpc' = IF next_task = Len(tasks) THEN "dimensions" ELSE "loop"
  /\ UNCHANGED <<tasks, dimensions, summary>>
  /\ UNCHANGED <<imgVars, decVars, rampVars, composeVars>>

IsImageFile(name) == name \notin {DimensionsFile, SummaryFile}

\* lines 424-453: measure every image of the output directory that can be
\* read; write the dictionary when it is not empty
generate_image_dimensions_json ==
  /\ rpc = "dimensions"
  /\ LET readable == {name \in DOMAIN files :
                        IsImageFile(name) /\ files[name] # Corrupt}
         dimensions_dict == [name \in readable |-> files[name]]
     IN /\ dimensions' = dimensions_dict
        /\ files' = IF readable # {}
                    THEN [name \in DOMAIN files \cup {DimensionsFile} |->
                            IF name = DimensionsFile THEN Json ELSE files[name]]
                    ELSE files
  /\ rpc' = "summary"
  /\ UNCHANGED <<tasks, next_task, pose_counter, generated_poses, saves,
                 outcomes, summary>>
  /\ UNCHANGED <<imgVars, decVars, rampVars, composeVars>>

\* lines 516-531
GenerateSummary ==
  /\ rpc = "summary"
  /\ summary' = [total_sprites_generated |-> Len(generated_poses),
                 sprites |-> [i \in 1 .. Len(generated_poses) |->
                                PoseFile(generated_poses[i])],
                 sprite_dimensions |-> dimensions]
  /\ files' = [name \in DOMAIN files \cup {SummaryFile} |->
                 IF name = SummaryFile THEN Json ELSE files[name]]
  /\ rpc' = "done"
  /\ UNCHANGED <<tasks, next_task, pose_counter, generated_poses, saves,
                 outcomes, dimensions>>
  /\ UNCHANGED <<imgVars, decVars, rampVars, composeVars>>

NextRun ==
  \/ RunTask
  \/ generate_image_dimensions_json
  \/ GenerateSummary

SpecRun == InitRun /\ [][NextRun]_vars

(***************************************************************************)
(* Properties of run.                                                      *)
(***************************************************************************)
\* the failures C6 lists: the input file, the generation, the processing,
\* the saving
ListedKinds == EarlyKinds \cup {"save_sprite"}
SomeListedFailure ==
  \E i \in 1 .. Len(outcomes) : outcomes[i].attempt.kind \in ListedKinds
OnlyListedFailures ==
  \A i \in 1 .. Len(outcomes) : outcomes[i].attempt.kind \in ListedKinds \cup {"ok"}
InvokedInOrder(n) ==
  Len(outcomes) = n /\ \A i \in 1 .. n : outcomes[i].task = i
RunEnded == rpc \in {"done", "aborted"}
SomeReadableImage ==
  \E name \in DOMAIN files : IsImageFile(name) /\ files[name] # Corrupt

GeneratedFiles == {PoseFile(generated_poses[i]) : i \in 1 .. Len(generated_poses)}

\* C14: when run has finished, the dimension record has an entry, with the
\* width and height of the file saved, for exactly the sprite files that
\* generated_poses (the summary's list of sprites) names.
C14_RecordMatchesGenerated ==
  rpc = "done" =>
     /\ DOMAIN dimensions = GeneratedFiles
     /\ \A name \in DOMAIN dimensions : dimensions[name] \in SpriteDims

\* C15: generate_and_process_pose takes the sheet branch exactly when the
\* declared size of the task is "1536x1024"; for any other size, and for no
\* size, it takes the single-sprite branch, which on success saves exactly
\* one sprite file and returns exactly that one.
C15_PathSelection ==
  \A i \in 1 .. Len(outcomes) :
     LET o == outcomes[i] IN
       /\ o.path = "sheet" => tasks[o.task] = "1536x1024"
       /\ o.path = "single" => tasks[o.task] # "1536x1024"
       /\ o.attempt.kind \notin {"open", "generate", "save_image"}
            => o.path # "none"
       /\ (o.path = "single" /\ o.attempt.kind = "ok") =>
            /\ o.attempt.n = 1 /\ o.attempt.saved = 1
            /\ PoseFile(o.pose_number) \in DOMAIN files
            /\ Returned(o.attempt, o.pose_number) = <<o.pose_number>>

\* a task without a size has gone the single-sprite way and saved one file,
\* and a task of size "1536x1024" has gone the sheet way and saved two
C15_Witness ==
  /\ Len(outcomes) = 2
  /\ tasks = <<"none", "1536x1024">>
  /\ outcomes[1].path = "single" /\ outcomes[1].attempt.kind = "ok"
  /\ outcomes[2].path = "sheet" /\ outcomes[2].attempt.kind = "ok"
  /\ outcomes[2].attempt.n = 2
  /\ generated_poses = <<1, 2, 3>>

(***************************************************************************)
(* Properties of the masks and of the alpha of remove_white_background.    *)
(***************************************************************************)
\* the candidate pixels: luminance at or above the core threshold
Candidates == {p \in DOMAIN gray : gray[p] >= core_white_threshold}
CandidateCorners == CornerSet(arg) \cap Candidates
\* a step between neighbours: horizontal or vertical, or diagonal as well
Step(p, q, diagonal) ==
  LET dx == Abs(p[1] - q[1])
      dy == Abs(p[2] - q[2])
  IN IF diagonal THEN dx <= 1 /\ dy <= 1 /\ dx + dy >= 1 ELSE dx + dy = 1
\* the pixels of cand that a path of steps inside cand joins to a pixel of S
RECURSIVE Reachable(_, _, _)
Reachable(S, cand, diagonal) ==
  LET T == S \cup {q \in cand : \E p \in S : Step(p, q, diagonal)}
  IN IF T = S THEN S ELSE Reachable(T, cand, diagonal)
Flooded == pass = 1 /\ pc = "dilate"

\* C16 as stated: the definite-background mask is the set of candidate
\* pixels joined to a candidate corner by a path of candidate pixels whose
\* consecutive pixels are 8-neighbours.
C16_EightNeighbourRegion ==
  Flooded => definite_background = Reachable(CandidateCorners, Candidates, TRUE)

\* C16, amended: the definite-background mask is the set of candidate
\* pixels joined to a candidate corner by a path of candidate pixels whose
\* consecutive pixels are 4-neighbours (horizontally or vertically
\* adjacent); a candidate that touches the region only diagonally is not
\* in it.
C16_FourNeighbourRegion ==
  Flooded => definite_background = Reachable(CandidateCorners, Candidates, FALSE)

\* a corner has been flooded and some candidate touches the flooded region
\* only diagonally
C16_Witness ==
  /\ Flooded
  /\ definite_background # {}
  /\ Reachable(CandidateCorners, Candidates, TRUE) # definite_background

BorderPixels == {p \in Pos(arg.w, arg.h) :
                   p[1] \in {0, arg.w - 1} \/ p[2] \in {0, arg.h - 1}}
\* the candidates that no path of candidates joins to the border
Enclosed(diagonal) ==
  Candidates \ Reachable(BorderPixels \cap Candidates, Candidates, diagonal)

\* C17: a candidate pixel that is not connected through candidate pixels to
\* the border of the image is never in the definite-background mask,
\* whether connection counts only horizontal and vertical neighbours or
\* diagonal ones as well.
C17_EnclosedNotBackground ==
  Flooded =>
     /\ definite_background \cap Enclosed(FALSE) = {}
     /\ definite_background \cap Enclosed(TRUE) = {}
     /\ definite_background \subseteq Candidates

\* a corner has been flooded while a candidate pixel elsewhere has no
\* candidate neighbour at all, not even diagonally, and is not on the border
C17_Witness ==
  /\ Flooded
  /\ definite_background # {}
  /\ Enclosed(TRUE) # {}

AlphaAssigned == pass = 1 /\ pc = "blur"
ExpansionZone == expanded_background \ definite_background

\* C18: in the alpha mask as it is before the blur, every definite-background
\* pixel has alpha 0, every pixel outside the dilated mask has alpha 1, and a
\* pixel whose alpha is strictly between 0 and 1 is in the expansion zone
\* (dilated mask minus definite mask).
C18_AlphaBeforeBlur ==
  AlphaAssigned =>
     \A p \in Pos(arg.w, arg.h) :
        /\ p \in definite_background => alpha_channel[p] = 0
        /\ p \notin expanded_background => alpha_channel[p] = AlphaScale
        /\ (alpha_channel[p] > 0 /\ alpha_channel[p] < AlphaScale)
              => p \in ExpansionZone
        /\ alpha_channel[p] >= 0 /\ alpha_channel[p] <= AlphaScale

\* a light gray image with a flooded white corner: a pixel of the expansion
\* zone has an alpha strictly between 0 and 1, and a pixel of the same
\* colour outside the dilated mask has alpha 1
C18_Witness ==
  /\ AlphaAssigned
  /\ definite_background # {}
  /\ \E p \in ExpansionZone, q \in Pos(arg.w, arg.h) \ expanded_background :
        /\ gray[p] = gray[q]
        /\ alpha_channel[p] > 0 /\ alpha_channel[p] < AlphaScale
        /\ alpha_channel[q] = AlphaScale

(***************************************************************************)
(* The loop body of lines 183-194 on one pixel of the expansion zone, for  *)
(* every luminance.                                                        *)
(***************************************************************************)
InitRamp ==
  /\ zpc = "pixel"
  /\ pixel_gray \in 0 .. 255
  /\ zone_alpha = None
  /\ ImgIdle
  /\ DecIdle
  /\ RunIdle
  /\ ComposeIdle

\* lines 184-194: alpha_channel[y, x] starts at 1 (line 173) and is
\* overwritten in the two light ranges
AssignZoneAlpha ==
  /\ zpc = "pixel"
  /\ zone_alpha' = ZoneAlpha(pixel_gray)
  /\ zpc' = "done"
  /\ UNCHANGED pixel_gray
  /\ UNCHANGED <<imgVars, decVars, runVars, composeVars>>

NextRamp == AssignZoneAlpha

SpecRamp == InitRamp /\ [][NextRamp]_vars

\* C19: for an expansion-zone pixel of luminance L, the alpha is
\* 1 - (L - 230) / 25 when L > 230 (0 at L = 255), the linear function
\* ((230 - L) / 30 * 128 + 127) / 255 of L, which lies in [127/255, 1], when
\* 200 < L <= 230, and 1 when L <= 200; it is always in [0, 1].
C19_Ramps ==
  zpc = "done" =>
     /\ pixel_gray > 230 =>
          /\ 25 * zone_alpha = 25 * AlphaScale - (pixel_gray - 230) * AlphaScale
          /\ pixel_gray = 255 => zone_alpha = 0
     /\ (pixel_gray > 200 /\ pixel_gray <= 230) =>
          /\ 30 * 255 * zone_alpha
                = ((230 - pixel_gray) * 128 + 127 * 30) * AlphaScale
          /\ 255 * zone_alpha >= 127 * AlphaScale
          /\ zone_alpha <= AlphaScale
     /\ pixel_gray <= 200 => zone_alpha = AlphaScale
     /\ zone_alpha >= 0 /\ zone_alpha <= AlphaScale

\* a pixel of luminance 240 has got alpha 0.6, on the upper ramp
C19_Witness ==
  /\ zpc = "done"
  /\ pixel_gray = 240
  /\ 10 * zone_alpha = 6 * AlphaScale

\* the columns and the rows of the image that lie within 2 pixels of the span
\* of the visible pixels
BoxColumns(buf) ==
  {c \in 0 .. buf.w - 1 :
     \E p, q \in Visible(buf) : p[1] - 2 <= c /\ c <= q[1] + 2}

BoxRows(buf) ==
  {r \in 0 .. buf.h - 1 :
     \E p, q \in Visible(buf) : p[2] - 2 <= r /\ r <= q[2] + 2}

\* C20: when some pixel has alpha > 10, crop_sprite_tight returns exactly the
\* rectangle from the first to the last row and column holding such a pixel,
\* widened by 2 pixels on each side and cut off at the image's edges: every
\* pixel with alpha > 10 lies inside it, and its origin (x, y) and size
\* satisfy x >= 0, y >= 0, x + width <= image width, y + height <= image
\* height.
C20_CropBox ==
  (CropDone /\ Visible(image_array) # {}) =>
     LET columns == BoxColumns(image_array)
         rows == BoxRows(image_array)
         x == SetMin(columns)
         y == SetMin(rows)
     IN /\ ret.w = Cardinality(columns)
        /\ ret.h = Cardinality(rows)
        /\ columns = x .. x + ret.w - 1
        /\ rows = y .. y + ret.h - 1
        /\ DOMAIN ret.px = Pos(ret.w, ret.h)
        /\ \A p \in Pos(ret.w, ret.h) :
              ret.px[p] = image_array.px[<<p[1] + x, p[2] + y>>]
        /\ \A p \in Visible(image_array) : p[1] \in columns /\ p[2] \in rows
        /\ x >= 0 /\ y >= 0
        /\ x + ret.w <= image_array.w
        /\ y + ret.h <= image_array.h

\* the padding is cut off at the left edge and fits in full on the right, and
\* the crop is narrower than the image
C20_Witness ==
  /\ CropDone
  /\ Visible(image_array) # {}
  /\ SetMin({p[1] : p \in Visible(image_array)}) = 1
  /\ SetMax({p[1] : p \in Visible(image_array)}) + 2 < image_array.w - 1
  /\ ret.w = SetMax({p[1] : p \in Visible(image_array)}) + 3
  /\ ret.w < image_array.w

\* the number of sprites the tasks invoked so far have produced
RECURSIVE TotalSprites(_)
TotalSprites(n) ==
  IF n = 0 THEN 0 ELSE TotalSprites(n - 1) + outcomes[n].attempt.n

AllSucceeded == \A i \in 1 .. Len(outcomes) : outcomes[i].attempt.kind = "ok"

\* C21: a task saves the sprites of its list, in the order of the list (the
\* regions of a sheet from left to right), under the names pose_n,
\* pose_{n+1}, ... where n is the counter it was passed; and as long as every
\* task has succeeded the names saved are pose_1 .. pose_T, T the number of
\* sprites produced so far, each saved once, in increasing order across the
\* tasks, and the counter is T + 1.
C21_PoseNumbering ==
  /\ \A k \in 1 .. Len(saves) :
        LET o == outcomes[saves[k].task]
        IN saves[k].name = PoseFile(o.pose_number + saves[k].index)
  /\ \A k \in 1 .. Len(saves) - 1 :
        saves[k].task = saves[k + 1].task =>
           saves[k + 1].index = saves[k].index + 1
  /\ AllSucceeded =>
        LET T == TotalSprites(Len(outcomes))
        IN /\ Len(saves) = T
           /\ \A k \in 1 .. T : saves[k].name = PoseFile(k) /\ saves[k].complete
           /\ generated_poses = [k \in 1 .. T |-> k]
           /\ {name \in DOMAIN files : name[1] = "pose"} = {PoseFile(k) : k \in 1 .. T}
           /\ rpc # "aborted" => pose_counter = T + 1

\* a sheet of two sprites, then a single sprite: the sheet's regions have
\* been saved as pose_1 and pose_2, and the single sprite as pose_3
C21_Witness ==
  /\ Len(outcomes) = 2
  /\ AllSucceeded
  /\ outcomes[1].path = "sheet" /\ outcomes[1].attempt.n = 2
  /\ outcomes[2].path = "single"
  /\ Len(saves) = 3
  /\ saves[2] = [name |-> PoseFile(2), task |-> 1, index |-> 1, complete |-> TRUE]
  /\ saves[3] = [name |-> PoseFile(3), task |-> 2, index |-> 0, complete |-> TRUE]

\* C22: the alpha the ramps give an expansion-zone pixel does not increase
\* with its luminance: a pixel gets at most the alpha of every darker pixel,
\* over the whole range 0..255 and across the step from 230 to 231.
C22_LighterMoreTransparent ==
  zpc = "done" =>
     \A darker \in 0 .. pixel_gray - 1 : ZoneAlpha(darker) >= zone_alpha

PoseFilesLeft == {name \in DOMAIN files : name[1] = "pose"}

\* C23: whatever tasks succeed and fail in a run, no pose file name is saved
\* by two tasks, and every pose file in the output directory is one that
\* generated_poses lists.
C23_NoOverwrite ==
  /\ \A j, k \in 1 .. Len(saves) :
        saves[j].name = saves[k].name => saves[j].task = saves[k].task
  /\ PoseFilesLeft \subseteq GeneratedFiles

(***************************************************************************)
(* compose_story_endpoint, main.py lines 120-186.  The URL is the list of  *)
(* its parts between slashes; indices are those of Python plus one.  A     *)
(* path under GENERATED_ASSETS_DIR is the pair of the session and the file *)
(* name joined to it.  What the outside world does to one request is env:  *)
(* whether the copy works, what becomes of the configuration file, whether *)
(* the compositor exits with 0, and the pages it has written.              *)
(***************************************************************************)
UrlParts == {"", "generated", "s1", "pose_1.png", "pose_2.png"}
Urls == UNION {[1 .. n -> UrlParts] : n \in 1 .. MaxParts}
PoseFilesOnDisk == {<<"s1", "pose_1.png">>, <<"s1", "pose_2.png">>}
Pages == 1 .. MaxPages

\* lines 126-131: session_id = url_parts[2], pose_filename = url_parts[-1]
SelectedPosePath(url_parts) == <<url_parts[3], url_parts[Len(url_parts)]>>

IsFile(assets, path) == path \in assets

\* joining an empty part leaves the directory: the assets directory itself
\* (made at line 29) or the directory of a session that has files
IsDirectory(assets, path) ==
  \/ path = <<"", "">>
  \/ path[2] = "" /\ \E f \in assets : f[1] = path[1]
  \/ path[1] = "" /\ \E f \in assets : f[1] = path[2]

\* os.path.exists(selected_pose_path), line 132
PathExists(assets, path) == IsFile(assets, path) \/ IsDirectory(assets, path)

ComposeEnvs ==
  [copy_ok : BOOLEAN, config : {"written", "broken", "untouched"},
   compositor_ok : BOOLEAN, pages : SUBSET Pages]

\* the statement of the try block that raises, "none" when none does
RaisedAt(url_parts, assets, final, env) ==
  IF Len(url_parts) < 3 THEN "split"                          \* line 127
  ELSE IF ~PathExists(assets, SelectedPosePath(url_parts))
  THEN "exists"                                                \* line 133
  ELSE IF ~IsFile(assets, SelectedPosePath(url_parts)) \/ ~env.copy_ok
  THEN "copy"                                                  \* line 141
  ELSE IF env.config # "written" THEN "config"                 \* lines 147-148
  ELSE IF ~env.compositor_ok THEN "compositor"                 \* line 152
  ELSE IF final \cup env.pages = {} THEN "pages"               \* line 168
  ELSE "none"

\* the exception raised at each of these statements
ExceptionAt(at) ==
  CASE at = "split" -> [type |-> "IndexError", status_code |-> 0,
                        detail |-> "list index out of range"]
    [] at = "exists" -> [type |-> "HTTPException", status_code |-> 404,
                         detail |-> "Selected pose not found"]
    [] at = "copy" -> [type |-> "OSError", status_code |-> 0, detail |-> "copy2"]
    [] at = "config" -> [type |-> "OSError", status_code |-> 0, detail |-> "open"]
    [] at = "compositor" -> [type |-> "CalledProcessError", status_code |-> 0,
                             detail |-> "stderr"]
    [] at = "pages" -> [type |-> "HTTPException", status_code |-> 500,
                        detail |-> "No story pages were generated"]

\* lines 178-186: the two except clauses.  HTTPException is an Exception, so
\* the second clause takes the exceptions the try block raises itself
Handled(exception) ==
  IF exception.type = "CalledProcessError"
  THEN [status_code |-> 500, error |-> "Story composition failed",
        details |-> exception.detail, story_pages |-> <<>>]
  ELSE [status_code |-> 500, error |-> "Unexpected error",
        details |-> exception.detail, story_pages |-> <<>>]

\* sorted(os.listdir(STORY_FINAL_DIR)), lines 164-166
RECURSIVE SortedPages(_)
SortedPages(S) ==
  IF S = {} THEN <<>> ELSE <<SetMin(S)>> \o SortedPages(S \ {SetMin(S)})

InitCompose ==
  /\ cpc = "request"
  /\ selected_pose_url \in Urls
  /\ generated_assets \in SUBSET PoseFilesOnDisk
  /\ story_final \in SUBSET Pages
  /\ story_sprite = None
  /\ composition_config = "untouched"
  /\ compositor_runs = 0
  /\ response = None
  /\ ImgIdle
  /\ DecIdle
  /\ RunIdle
  /\ RampIdle

compose_story_endpoint ==
  /\ cpc = "request"
  /\ \E env \in ComposeEnvs :
       LET at == RaisedAt(selected_pose_url, generated_assets, story_final, env)
           copied == at \in {"config", "compositor", "pages", "none"}
           started == at \in {"compositor", "pages", "none"}
       IN /\ story_sprite' = IF copied THEN SelectedPosePath(selected_pose_url)
                             ELSE story_sprite
          /\ composition_config' = IF copied THEN env.config
                                   ELSE composition_config
          /\ compositor_runs' = IF started THEN compositor_runs + 1
                                ELSE compositor_runs
          /\ story_final' = IF started THEN story_final \cup env.pages
                            ELSE story_final
          /\ response' = IF at = "none"
                         THEN [status_code |-> 200,
                               error |-> "", details |-> "",
                               story_pages |->
                                 SortedPages(story_final \cup env.pages)]
                         ELSE Handled(ExceptionAt(at))
  /\ cpc' = "responded"
  /\ UNCHANGED <<selected_pose_url, generated_assets>>
  /\ UNCHANGED <<imgVars, decVars, runVars, rampVars>>

NextCompose == compose_story_endpoint

SpecCompose == InitCompose /\ [][NextCompose]_vars

\* the file the URL names is not there
PoseMissing ==
  /\ Len(selected_pose_url) >= 3
  /\ ~PathExists(generated_assets, SelectedPosePath(selected_pose_url))

\* C24: when the file that selected_pose_url names does not exist, the
\* endpoint answers with status 404, "Selected pose not found", and has
\* copied no file, written no composition config and not started the
\* compositor.
C24_MissingPoseNotFound ==
  (cpc = "responded" /\ PoseMissing) =>
     /\ response.status_code = 404
     /\ response.details = "Selected pose not found"
     /\ story_sprite = None
     /\ composition_config = "untouched"
     /\ compositor_runs = 0

=============================================================================
